---- MODULE Spec2Model ----
(***************************************************************************)
(* Model of unreal_cv_ros/src/sensor_model.py: the SensorModel node.       *)
(*                                                                         *)
(* The node's constructor reads the model type, performs the camera        *)
(* parameter handshake and registers publisher and subscriber; afterwards  *)
(* every inbound UeSensorRaw message runs callback, which decodes the two  *)
(* buffers, projects the depth image (depth_to_3d), packs the colour image *)
(* (rgb_to_float), stacks both and publishes one PointCloud2.              *)
(*                                                                         *)
(* Numbers.  The projection is computed in exact real arithmetic: a value  *)
(* is kept as sign * sqrt(n/d), which is closed under the operations the   *)
(* code applies: squares, square roots, products, quotients and sums of    *)
(* squares.  Rounding of the IEEE doubles is not modelled.  The packed     *)
(* colour is modelled bit by bit: 4 little-endian bytes, the float they    *)
(* denote, and the float32 word that value is stored as.                   *)
(***************************************************************************)
EXTENDS Integers, Sequences, FiniteSets, TLC

\* ------------------------------------------------------------------ bounds
MaxWidth == 4
MaxHeight == 2
MaxDepth == 2

\* Sample input values (sets, not bounds).
ModelTypes == {"ground_truth", "noisy"}
Stamps == {1, 2}
FocalLengths == {1, 2}
Seeds == {0, 1}
Bytes == <<0, 255, 128, 1, 127, 254>>

\* --------------------------------------------------------------- variables
VARIABLES
    pc,             \* position of __init__: "init", "wait", "call", "advertise", "subscribe",
                    \* then "ready" (rospy.spin), or "crashed" (an exception left __init__)
    true_division,  \* whether width/2 is true division (Python 3) or floor division (Python 2)
    model_type_in,  \* the ~model_type parameter
    model,          \* self.model: <<>> while the attribute is unset, else <<name>>
    fatal_logged,   \* rospy.logfatal was called
    service_up,     \* get_camera_params is advertised by the unreal client
    camera_params,  \* self.camera_params: <<>> while unset, else <<Width, Height, FocalLength>>
    pub,            \* self.pub exists
    sub,            \* self.sub exists: callback is registered
    last,           \* <<>>, or <<record>> of the most recent callback invocation
    failed          \* some invocation before the most recent one raised

vars == <<pc, true_division, model_type_in, model, fatal_logged, service_up,
          camera_params, pub, sub, last, failed>>

\* ------------------------------------------------------- exact arithmetic
RECURSIVE GCD(_, _)
GCD(a, b) == IF b = 0 THEN a ELSE GCD(b, a % b)

Abs(a) == IF a < 0 THEN -a ELSE a

Sign(a) == IF a < 0 THEN -1 ELSE IF a = 0 THEN 0 ELSE 1

\* The rational n/d, d > 0, in lowest terms.
Rat(n, d) ==
    LET g == GCD(Abs(n), Abs(d))
        s == IF d < 0 THEN -1 ELSE 1
    IN  [n |-> (s * n) \div g, d |-> (s * d) \div g]

RatAdd(p, q) == Rat(p.n * q.d + q.n * p.d, p.d * q.d)
RatSub(p, q) == Rat(p.n * q.d - q.n * p.d, p.d * q.d)
RatMul(p, q) == Rat(p.n * q.n, p.d * q.d)
RatDiv(p, q) == Rat(p.n * q.d, p.d * q.n)

\* A real sgn * sqrt(n/d).
Real(sgn, q) == IF q.n = 0 \/ sgn = 0 THEN [sgn |-> 0, n |-> 0, d |-> 1]
                ELSE [sgn |-> sgn, n |-> q.n, d |-> q.d]
Sq(x) == Rat(x.n, x.d)                                    \* x squared
FromRat(q) == Real(Sign(q.n), RatMul(q, q))
FromInt(i) == FromRat(Rat(i, 1))
Sqrt(q) == Real(1, q)                                     \* square root of q >= 0
Mul(x, y) == Real(x.sgn * y.sgn, RatMul(Sq(x), Sq(y)))
Div(x, y) == Real(x.sgn * y.sgn, RatDiv(Sq(x), Sq(y)))    \* y # 0
Zero == FromInt(0)

\* ------------------------------------------------------------ float words
Pow2(k) == 2 ^ k

\* A finite non-negative float is kept as [m, e]: the value m * 2^e.

\* struct.pack('i', c): the 4 bytes of a signed 32-bit integer, little-endian
\* (0 <= c < 2^31 here: c is built from three 8-bit channels).
pack_i(c) == << c % 256, (c \div 256) % 256, (c \div 65536) % 256, (c \div 16777216) % 256 >>

\* struct.unpack('f', bytes): the value of the IEEE-754 binary32 word held in
\* the 4 bytes (sign bit clear, exponent field below 255).
unpack_numeric_cast(b) == [m |-> b[1] + 256 * b[2] + 65536 * b[3] + 16777216 * b[4], e |-> 0]
unpack_f(b) ==
    LET word == b[1] + 256 * b[2] + 65536 * b[3] + 16777216 * b[4]
        E    == word \div Pow2(23)
        frac == word % Pow2(23)
    IN  IF E = 0 THEN [m |-> frac, e |-> -149]
        ELSE [m |-> Pow2(23) + frac, e |-> E - 150]

\* m * 2^e with 2^23 <= m < 2^24 (m > 0).
RECURSIVE Normalize(_, _)
Normalize(m, e) ==
    IF m < Pow2(23) THEN Normalize(2 * m, e - 1)
    ELSE IF m >= Pow2(24) THEN Normalize(m \div 2, e + 1)
    ELSE [m |-> m, e |-> e]

\* np.float32(v).tostring(): the binary32 word that stores the value v
\* (exact for every value that binary32 holds).
float32_word(v) ==
    IF v.m = 0 THEN 0
    ELSE LET n == Normalize(v.m, v.e)
             E == n.e + 150
         IN  IF E >= 1 THEN E * Pow2(23) + (n.m - Pow2(23))
             ELSE n.m \div Pow2(1 - E)

\* ------------------------------------------------------------------ arrays
\* A 2-D array: shape (h, w) and its elements in row-major order.
\* Row and column of the i-th element (from 1) of an array with w columns.
RowOf(i, w) == (i - 1) \div w
ColOf(i, w) == (i - 1) % w
Elem(a, r, c) == a.v[r * a.w + c + 1]
\* Element (r, c) of a broadcast against a larger shape: an axis of length 1 is repeated.
BElem(a, r, c) == Elem(a, IF a.h = 1 THEN 0 ELSE r, IF a.w = 1 THEN 0 ELSE c)
\* numpy's broadcasting rule for one axis, and the resulting length.
Broadcastable(m, n) == m = n \/ m = 1 \/ n = 1
BroadcastDim(m, n) == IF m = 1 THEN n ELSE m
Rows(a) == 0..(a.h - 1)
Cols(a) == 0..(a.w - 1)

\* ------------------------------------------------------------ depth_to_3d
width == camera_params[1]
height == camera_params[2]
f == FromInt(camera_params[3])

\* width/2 and height/2: true division under Python 3, floor division of two
\* integers under Python 2.
half(n) == IF true_division THEN Rat(n, 2) ELSE Rat(n \div 2, 1)
center_x == half(width)
center_y == half(height)

\* The meshgrid: cols[r, c] = c and rows[r, c] = r, of shape (height, width),
\* read at index (r, c) of the broadcast result.
cols(r, c) == Rat(IF width = 1 THEN 0 ELSE c, 1)
rows(r, c) == Rat(IF height = 1 THEN 0 ELSE r, 1)
dx(r, c) == RatSub(cols(r, c), center_x)
dy(r, c) == RatSub(rows(r, c), center_y)

distance(r, c) ==
    LET a == dy(r, c)
        b == dx(r, c)
    IN  Sqrt(RatAdd(RatMul(a, a), RatMul(b, b)))

points_z_uncorrected(img_depth, r, c) == FromInt(BElem(img_depth, r, c))
points_z(img_depth, r, c) ==
    Div(FromInt(BElem(img_depth, r, c)),
        Sqrt(RatAdd(Rat(1, 1), Sq(Div(distance(r, c), f)))))
points_x_uncentred(z, r, c) == Div(Mul(z, FromRat(cols(r, c))), f)
points_x(z, r, c) == Div(Mul(z, FromRat(dx(r, c))), f)
points_y(z, r, c) == Div(Mul(z, FromRat(dy(r, c))), f)

\* The (rows, cols, 3) array np.dstack returns, or the exception raised:
\* AttributeError while self.camera_params does not exist, ValueError when the
\* depth image does not broadcast against the (height, width) grid.
depth_to_3d(img_depth) ==
    IF camera_params = <<>> THEN [err |-> "AttributeError", cloud |-> <<>>]
    ELSE IF ~(Broadcastable(img_depth.h, height) /\ Broadcastable(img_depth.w, width))
    THEN [err |-> "ValueError", cloud |-> <<>>]
    ELSE LET point(r, c) == LET z == points_z(img_depth, r, c)
                            IN  << points_x(z, r, c), points_y(z, r, c), z >>
             bh == BroadcastDim(img_depth.h, height)
             bw == BroadcastDim(img_depth.w, width)
         IN  [err |-> "none",
              cloud |-> << [h |-> bh, w |-> bw,
                            v |-> [i \in 1..(bh * bw) |-> point(RowOf(i, bw), ColOf(i, bw))]] >>]

\* ----------------------------------------------------------- rgb_to_float
left_shift(x, k) == x * Pow2(k)
color(px) == left_shift(px[1], 16) + left_shift(px[2], 8) + px[3]

rgb_to_float(img_color) ==
    [h |-> img_color.h, w |-> img_color.w,
     v |-> [i \in 1..(img_color.h * img_color.w) |-> unpack_f(pack_i(color(img_color.v[i])))]]

\* ---------------------------------------------------------------- callback
fields == << <<"x", 0>>, <<"y", 4>>, <<"z", 8>>, <<"rgb", 12>> >>

header_stamp_stale(ros_data) == 0
header_stamp(ros_data) == ros_data.stamp

\* The PointCloud2 built and published at the end of callback.
PointCloud2(ros_data, pointcloud, rgb) ==
    LET record(i) == LET p == pointcloud.v[i]
                     IN  [x |-> p[1], y |-> p[2], z |-> p[3], rgb |-> float32_word(rgb.v[i])]
        msg_width == pointcloud.h      \* pointcloud.shape[0]
    IN  [stamp        |-> header_stamp(ros_data),
         frame_id     |-> "camera",
         width        |-> msg_width,
         height       |-> pointcloud.w,      \* pointcloud.shape[1]
         fields       |-> fields,
         is_bigendian |-> FALSE,
         point_step   |-> 16,
         row_step     |-> 16 * msg_width,
         is_dense     |-> TRUE,
         data         |-> [i \in 1..(pointcloud.h * pointcloud.w) |-> record(i)]]

\* One run of callback on ros_data: the exception that left it ("none" when it
\* returned), the geometry depth_to_3d returned, and the messages published.
callback(ros_data) ==
    IF ~ros_data.color_data.ok \/ ~ros_data.depth_data.ok
    THEN [ros_data |-> ros_data, error |-> "IOError", cloud |-> <<>>, out |-> <<>>]
    ELSE LET img_color == ros_data.color_data
             img_depth == ros_data.depth_data
             proj == depth_to_3d(img_depth)
         IN  IF proj.err # "none"
             THEN [ros_data |-> ros_data, error |-> proj.err, cloud |-> <<>>, out |-> <<>>]
             ELSE LET pointcloud == proj.cloud[1]
                      rgb == rgb_to_float(img_color)
                  IN  IF pointcloud.h # rgb.h \/ pointcloud.w # rgb.w     \* np.dstack
                      THEN [ros_data |-> ros_data, error |-> "ValueError",
                            cloud |-> proj.cloud, out |-> <<>>]
                      ELSE [ros_data |-> ros_data, error |-> "none", cloud |-> proj.cloud,
                            out |-> << PointCloud2(ros_data, pointcloud, rgb) >>]

\* ------------------------------------------------------------------ inputs
Malformed == [ok |-> FALSE, h |-> 0, w |-> 0, v |-> <<>>]

DepthImage(shape, seed) ==
    [ok |-> TRUE, h |-> shape[1], w |-> shape[2],
     v |-> [i \in 1..(shape[1] * shape[2]) |->
              (seed + RowOf(i, shape[2]) + ColOf(i, shape[2])) % (MaxDepth + 1)]]

ColourImage(shape, seed) ==
    LET px(r, c) == << Bytes[((seed + r) % Len(Bytes)) + 1],
                       Bytes[((seed + c) % Len(Bytes)) + 1],
                       Bytes[((seed + r + c) % Len(Bytes)) + 1] >>
    IN  [ok |-> TRUE, h |-> shape[1], w |-> shape[2],
         v |-> [i \in 1..(shape[1] * shape[2]) |-> px(RowOf(i, shape[2]), ColOf(i, shape[2]))]]

\* The shapes inbound images are drawn from, relative to the camera's (rows,
\* columns), as pairs <<depth shape, colour shape>>.
CameraShape == IF camera_params = <<>> THEN <<MaxHeight, MaxWidth>> ELSE <<height, width>>
ShapePairs ==
    LET hh  == CameraShape[1]
        ww  == CameraShape[2]
        cam == <<hh, ww>>
    IN  { <<cam, cam>>,                          \* both as configured
          <<<<1, ww>>, cam>>,                    \* depth of one row
          <<<<hh, 1>>, cam>>,                    \* depth of one column
          <<cam, <<hh, ww + 1>>>>,               \* colour one column wider
          <<<<ww, hh>>, <<ww, hh>>>>,            \* both transposed
          <<<<hh + 1, ww>>, <<hh + 1, ww>>>>,    \* both one row taller
          <<<<1, ww>>, <<1, ww>>>> }             \* both of one row

UeSensorRaw ==
    {[stamp |-> t, color_data |-> ColourImage(sp[2], s), depth_data |-> DepthImage(sp[1], s)] :
        t \in Stamps, s \in Seeds, sp \in ShapePairs}
    \cup {[stamp |-> t, color_data |-> Malformed, depth_data |-> DepthImage(CameraShape, 0)] : t \in Stamps}
    \cup {[stamp |-> t, color_data |-> ColourImage(CameraShape, 0), depth_data |-> Malformed] : t \in Stamps}

\* ----------------------------------------------------------------- actions
model_types == {"ground_truth"}

Init ==
    /\ pc = "init"
    /\ true_division \in BOOLEAN
    /\ model_type_in \in ModelTypes
    /\ model = <<>>
    /\ fatal_logged = FALSE
    /\ service_up = FALSE
    /\ camera_params = <<>>
    /\ pub = FALSE
    /\ sub = FALSE
    /\ last = <<>>
    /\ failed = FALSE

\* The unreal client advertises get_camera_params.
AdvertiseService ==
    /\ ~service_up
    /\ service_up' = TRUE
    /\ UNCHANGED <<pc, true_division, model_type_in, model, fatal_logged,
                   camera_params, pub, sub, last, failed>>

\* __init__, lines 26-36: look the model type up; log fatally when unknown.
SetupSensorType_subscribing ==
    /\ pc = "init"
    /\ IF model_type_in \in model_types
       THEN model' = <<model_type_in>> /\ fatal_logged' = FALSE
       ELSE model' = model /\ fatal_logged' = TRUE
    /\ pc' = "wait"
    /\ sub' = TRUE
    /\ UNCHANGED <<true_division, model_type_in, service_up, camera_params, pub,
                   last, failed>>
SetupSensorType ==
    /\ pc = "init"
    /\ IF model_type_in \in model_types
       THEN model' = <<model_type_in>> /\ fatal_logged' = FALSE
       ELSE model' = model /\ fatal_logged' = TRUE
    /\ pc' = "wait"
    /\ UNCHANGED <<true_division, model_type_in, service_up, camera_params, pub, sub,
                   last, failed>>

\* rospy.wait_for_service returns once the service is advertised.
WaitForService ==
    /\ pc = "wait"
    /\ service_up
    /\ pc' = "call"
    /\ UNCHANGED <<true_division, model_type_in, model, fatal_logged, service_up,
                   camera_params, pub, sub, last, failed>>

\* The service call and the store of its response.
GetCameraParams ==
    /\ pc = "call"
    /\ \E Width \in 1..MaxWidth, Height \in 1..MaxHeight, FocalLength \in FocalLengths :
          camera_params' = <<Width, Height, FocalLength>>
    /\ pc' = "advertise"
    /\ UNCHANGED <<true_division, model_type_in, model, fatal_logged, service_up,
                   pub, sub, last, failed>>

\* The service call raises (the service went away): the exception leaves
\* __init__ and the process ends before any publisher or subscriber exists.
ServiceException ==
    /\ pc = "call"
    /\ pc' = "crashed"
    /\ UNCHANGED <<true_division, model_type_in, model, fatal_logged, service_up,
                   camera_params, pub, sub, last, failed>>

Advertise ==
    /\ pc = "advertise"
    /\ pub' = TRUE
    /\ pc' = "subscribe"
    /\ UNCHANGED <<true_division, model_type_in, model, fatal_logged, service_up,
                   camera_params, sub, last, failed>>

Subscribe ==
    /\ pc = "subscribe"
    /\ sub' = TRUE
    /\ pc' = "ready"
    /\ UNCHANGED <<true_division, model_type_in, model, fatal_logged, service_up,
                   camera_params, pub, last, failed>>

\* One inbound message delivered to the registered callback.  rospy catches an
\* exception that leaves the callback and logs it; the subscription stays.
Callback_caching_shape ==
    /\ sub
    /\ \E ros_data \in UeSensorRaw :
          /\ last' = << callback(ros_data) >>
          /\ camera_params' = IF camera_params # <<>> /\ ros_data.depth_data.ok
                              THEN <<ros_data.depth_data.w, ros_data.depth_data.h,
                                     camera_params[3]>>
                              ELSE camera_params
    /\ failed' = (failed \/ (last # <<>> /\ last[1].error # "none"))
    /\ UNCHANGED <<pc, true_division, model_type_in, model, fatal_logged, service_up,
                   pub, sub>>
Callback ==
    /\ sub
    /\ \E ros_data \in UeSensorRaw : last' = << callback(ros_data) >>
    /\ failed' = (failed \/ (last # <<>> /\ last[1].error # "none"))
    /\ UNCHANGED <<pc, true_division, model_type_in, model, fatal_logged, service_up,
                   camera_params, pub, sub>>

Next ==
    \/ AdvertiseService
    \/ SetupSensorType
    \/ WaitForService
    \/ GetCameraParams
    \/ ServiceException
    \/ Advertise
    \/ Subscribe
    \/ Callback

Spec == Init /\ [][Next]_vars

\* ------------------------------------------------------------------ claims
Acted == last # <<>>
Published == last # <<>> /\ last[1].out # <<>>
Projected == last # <<>> /\ last[1].cloud # <<>>
Msg == last[1].out[1]
Cloud == last[1].cloud[1]
Decoded == last # <<>> /\ last[1].ros_data.color_data.ok /\ last[1].ros_data.depth_data.ok
DepthIn == last[1].ros_data.depth_data
ColourIn == last[1].ros_data.color_data
SumSq(p) == RatAdd(RatAdd(Sq(p[1]), Sq(p[2])), Sq(p[3]))
WordToRgb(word) == << (word \div 65536) % 256, (word \div 256) % 256, word % 256 >>

\* C1: a message published for depth and colour frames of the configured shape
\* (Height, Width) has width = Width, height = Height, point_step = 16,
\* row_step = 16 * Width, is_dense = true and is_bigendian = false.
C1_MessageLayout ==
    (Published /\ DepthIn.h = height /\ DepthIn.w = width
               /\ ColourIn.h = height /\ ColourIn.w = width)
    => /\ Msg.width = width
       /\ Msg.height = height
       /\ Msg.point_step = 16
       /\ Msg.row_step = 16 * width
       /\ Msg.is_dense
       /\ ~Msg.is_bigendian

\* C2: with a model type that is not implemented, the subscriber is never
\* registered, callback never runs and nothing is published.
C2_UnknownModelIsFatal ==
    (model_type_in \notin model_types) => (~sub /\ last = <<>>)

\* C3: callback is registered and runs only after the get_camera_params
\* response has been stored in camera_params; while the service has not
\* responded the node is not ready and no frame has been processed.
C3_HandshakeGatesFrames ==
    /\ (sub \/ Acted) => (service_up /\ camera_params # <<>> /\ pc = "ready")
    /\ (pc = "ready") => camera_params # <<>>
    /\ Acted => last[1].error # "AttributeError"
C3_Witness == Published /\ pc = "ready" /\ camera_params # <<>>

\* C4: when the decoded colour and depth frames differ in (height, width),
\* the frame fails with an error and no point cloud is published for it.
C4_MismatchRejected ==
    (Decoded /\ (DepthIn.h # ColourIn.h \/ DepthIn.w # ColourIn.w))
    => (last[1].error # "none" /\ last[1].out = <<>>)

\* C5: the 32-bit word written for a pixel's colour is exactly
\* (r << 16) | (g << 8) | b, reading its three bytes back recovers (r, g, b),
\* and two pixels of different colour never get the same word.
C5_ColourRoundTrip ==
    Published =>
        /\ \A i \in 1..Len(Msg.data) :
              /\ Msg.data[i].rgb = ColourIn.v[i][1] * 65536 + ColourIn.v[i][2] * 256 + ColourIn.v[i][3]
              /\ WordToRgb(Msg.data[i].rgb) = ColourIn.v[i]
        /\ \A i, j \in 1..Len(Msg.data) :
              Msg.data[i].rgb = Msg.data[j].rgb => ColourIn.v[i] = ColourIn.v[j]
C5_Witness ==
    /\ Published
    /\ \E i, j \in 1..Len(Msg.data) :
          /\ ColourIn.v[i] # ColourIn.v[j]
          /\ ColourIn.v[i][1] >= 128         \* exponent field 1: a normal float
          /\ ColourIn.v[j][1] = 0            \* exponent field 0: a subnormal float
          /\ ColourIn.v[j] # <<0, 0, 0>>

\* C6: every point depth_to_3d returns has x^2 + y^2 + z^2 = depth^2 for the
\* depth of its pixel, with z >= 0 (the ray length is preserved).
C6_RayLengthPreserved ==
    Projected =>
        \A r \in Rows(Cloud), c \in Cols(Cloud) :
            /\ SumSq(Elem(Cloud, r, c)) = Rat(BElem(DepthIn, r, c) * BElem(DepthIn, r, c), 1)
            /\ Elem(Cloud, r, c)[3].sgn >= 0
C6_Witness ==
    /\ Projected
    /\ camera_params[3] = 2
    /\ \E r \in Rows(Cloud), c \in Cols(Cloud) :
          /\ BElem(DepthIn, r, c) > 0
          /\ Elem(Cloud, r, c)[1].sgn # 0
          /\ Elem(Cloud, r, c)[2].sgn # 0

\* C7: at a pixel whose offsets dx and dy from the image centre are both 0,
\* depth_to_3d yields x = 0, y = 0 and z = depth; for width 4 and height 2
\* that pixel is (col 2, row 1).
C7_CentrePixel ==
    Projected =>
        /\ \A r \in Rows(Cloud), c \in Cols(Cloud) :
              (dx(r, c).n = 0 /\ dy(r, c).n = 0)
              => Elem(Cloud, r, c) = <<Zero, Zero, FromInt(BElem(DepthIn, r, c))>>
        /\ (width = 4 /\ height = 2 /\ Cloud.h = 2 /\ Cloud.w = 4)
              => Elem(Cloud, 1, 2) = <<Zero, Zero, FromInt(BElem(DepthIn, 1, 2))>>
C7_Witness ==
    /\ Projected
    /\ width = 4 /\ height = 2 /\ Cloud.h = 2 /\ Cloud.w = 4
    /\ BElem(DepthIn, 1, 2) > 0
    /\ Elem(Cloud, 1, 2) = <<Zero, Zero, FromInt(BElem(DepthIn, 1, 2))>>

\* C8: a depth frame whose shape is not the configured (Height, Width) makes
\* the projection fail and return no geometry.
C8_DepthShapeChecked ==
    (Decoded /\ camera_params # <<>> /\ (DepthIn.h # height \/ DepthIn.w # width))
    => (last[1].cloud = <<>> /\ last[1].error # "none")

\* C9: an invocation of callback publishes one message or, when it fails,
\* none; the message carries the stamp of the frame that triggered it, one
\* record per pixel, and each record's colour and ray length are those of
\* that frame's colour and depth buffers.
C9_FrameAtomicity ==
    Acted =>
        /\ Len(last[1].out) <= 1
        /\ (Len(last[1].out) = 1) <=> (last[1].error = "none")
        /\ Published =>
              /\ Msg.stamp = last[1].ros_data.stamp
              /\ Len(Msg.data) = ColourIn.h * ColourIn.w
              /\ \A i \in 1..Len(Msg.data) :
                    /\ WordToRgb(Msg.data[i].rgb) = ColourIn.v[i]
                    /\ SumSq(<<Msg.data[i].x, Msg.data[i].y, Msg.data[i].z>>)
                         = Rat(BElem(DepthIn, RowOf(i, Cloud.w), ColOf(i, Cloud.w)) ^ 2, 1)
C9_Witness == Published /\ failed /\ Msg.stamp = 2 /\ Len(Msg.data) > 1

\* C10: no invocation of callback, failed or not, changes camera_params, the
\* selected model or the subscription; two consecutive invocations on frames
\* of equal content end alike and publish the same cloud.
SameOutcome(a, b) ==
    /\ a.error = b.error
    /\ a.cloud = b.cloud
    /\ Len(a.out) = Len(b.out)
    /\ a.out # <<>> => [a.out[1] EXCEPT !.stamp = 0] = [b.out[1] EXCEPT !.stamp = 0]
C10_HistoryIndependent ==
    [][ /\ camera_params # <<>> => camera_params' = camera_params
        /\ pc # "init" => model' = model
        /\ sub => sub'
        /\ (last # <<>> /\ last' # <<>>
              /\ last[1].ros_data.color_data = last'[1].ros_data.color_data
              /\ last[1].ros_data.depth_data = last'[1].ros_data.depth_data)
           => SameOutcome(last[1], last'[1]) ]_vars
C10_Witness == Published /\ failed /\ sub /\ camera_params # <<>>

====
